---- MODULE Spec2Model ----
(***************************************************************************)
(* Match lifecycle and settlement engine of PlayFree.Bet (freebet-api).    *)
(*                                                                         *)
(* The relational store is the shared state: the epl_matches table, the    *)
(* bets table and the users.money column.  The admin handlers (odds sync,  *)
(* scores sync, calc) and the bet placement handler act on it.  The calc   *)
(* handler and the bet placement handler are modelled statement by         *)
(* statement, since each issues several store calls that other requests    *)
(* may interleave with; a sync handler's loop body is one action per feed  *)
(* record (the loop iterations share nothing but the counters).            *)
(***************************************************************************)
EXTENDS Integers, Sequences, FiniteSets, TLC

(* ------------------------------ bounds -------------------------------- *)
MaxMatches == 1
MaxStored == 2
MaxUsers == 2
MaxBets == 2
MaxScore == 1
MaxPrice == 2
MaxStake == 1
MaxBetOdds == 2
MaxTime == 1
MaxSyncs == 2
MaxFeed == 4
MaxBatch == 2
MaxCalcs == 2
MaxWorkers == 2
MaxQuotes == 3
MaxQuotePrice == 3

InitialMoney == 1
TopupAmount == 2
MaxTopupBalance == 2

(* --------------------------- program values --------------------------- *)
\* UpsertMatch and processScoreEvent use -1 for "score unknown".
NoScore == -1

\* A nil pointer of the Match struct, a SQL NULL of a numeric column.
NULL == -2
\* A nil Result, a NULL result column.
NoResult == "null"
\* No row of epl_matches has the api_id.
NoRow == [norow |-> TRUE]

\* The api_id of a feed record that carries no "id": the empty string.
EmptyID == 0

\* The api_ids the lifecycle's feed reports, and every api_id a row can have.
MatchIds == 1..MaxMatches
ApiIds == EmptyID..MaxStored
Users == 1..MaxUsers
Workers == 1..MaxWorkers
Prices == 1..MaxPrice
Scores == 0..MaxScore
Times == 1..MaxTime
BetTypes == {"home", "draw", "away"}

VARIABLES
    matches,     \* epl_matches: api_id -> row, or NoRow
    bets,        \* bets table: sequence of rows in insertion order
    money,       \* users.money
    now,         \* the server clock
    calc,        \* per calc request: position, candidates read, open transaction
    place,       \* the bet placement or top-up request in flight
    credited,    \* history: per bet, how many committed balance credits it caused
    settledCnt,  \* history: per bet, how many committed status transitions
    lastOp,      \* history: summary of the last handler that returned
    syncs,       \* number of feed records processed
    calcs,       \* number of calc requests started
    sync,        \* per sync pipeline: the request in flight on one feed record
    resp         \* history: the response of the last sync request over a feed body

vars == <<matches, bets, money, now, calc, place, credited, settledCnt, lastOp, syncs, calcs,
          sync, resp>>

(* ------------------------------ feed ---------------------------------- *)
\* A record of the odds feed: identity, kickoff, and for each of the three
\* outcomes the price that processOddsEvent's pointer yields from the first
\* bookmaker's first market (NULL when the outcome is not quoted).
OddsEvents ==
    [ID : MatchIds, CommenceTime : Times,
     home : Prices \cup {NULL}, draw : Prices \cup {NULL}, away : Prices \cup {NULL}]

\* The odds records in which the bookmaker quotes all three prices or none.
QuotedOrNot == {e \in OddsEvents : e.home = e.draw /\ e.draw = e.away}

\* A record of the scores feed: the parsed per-side score (NULL when missing,
\* empty or unparseable) and the completed flag.
ScoresEvents ==
    [ID : MatchIds, CommenceTime : Times, Completed : BOOLEAN,
     home : Scores \cup {NULL}, away : Scores \cup {NULL}]

\* processOddsEvent: the Match built from an odds record.
processOddsEvent(event) ==
    [APIID |-> event.ID, CommenceTime |-> event.CommenceTime,
     HomeOdds |-> event.home, DrawOdds |-> event.draw, AwayOdds |-> event.away,
     Completed |-> FALSE, HomeScore |-> NULL, AwayScore |-> NULL,
     Calculated |-> FALSE, Result |-> NoResult]

\* processScoreEvent: the Match built from a scores record.
processScoreEvent(event) ==
    [APIID |-> event.ID, CommenceTime |-> event.CommenceTime,
     HomeOdds |-> NULL, DrawOdds |-> NULL, AwayOdds |-> NULL,
     Completed |-> event.Completed,
     HomeScore |-> event.home, AwayScore |-> event.away,
     Calculated |-> FALSE, Result |-> NoResult]

\* The score string of one side in a record of the scores feed: no entry
\* under the team's name, the empty string, a string strconv.Atoi rejects,
\* or the decimal text of the integer n.
RawInts == -1..MaxScore
RawScores ==
    {[kind |-> k, n |-> 0] : k \in {"missing", "empty", "garbage"}}
        \cup {[kind |-> "int", n |-> n] : n \in RawInts}

\* strconv.Atoi on a score string that is present and not empty.
Atoi(raw) == [ok |-> raw.kind = "int", value |-> raw.n]

\* Mutant of ScoreOf: a score that is not read counts as 0.
ScoreOfZeroDefault(raw) ==
    IF raw.kind \in {"missing", "empty"} \/ ~Atoi(raw).ok THEN 0 ELSE Atoi(raw).value

\* processScoreEvent, one side: the local starts at -1, takes the parsed
\* value when the string is present, not empty and Atoi succeeds, and the
\* struct's pointer is set only when the local is not -1.
ScoreOf(raw) ==
    LET score == IF raw.kind \notin {"missing", "empty"} /\ Atoi(raw).ok
                 THEN Atoi(raw).value ELSE NoScore
    IN IF score # NoScore THEN score ELSE NULL

\* A record of the scores feed as it is decoded, with the score strings.
RawScoresRecords ==
    [ID : MatchIds, CommenceTime : Times, Completed : BOOLEAN,
     home : RawScores, away : RawScores]

\* The decoded record with each side's score string read by ScoreOf.
ParsedScores(r) ==
    [ID |-> r.ID, CommenceTime |-> r.CommenceTime, Completed |-> r.Completed,
     home |-> ScoreOf(r.home), away |-> ScoreOf(r.away)]

\* processScoreEvent on a decoded record.
processRawScoreEvent(r) == processScoreEvent(ParsedScores(r))

\* The outcomes of the first market of the first bookmaker of an odds
\* record: up to MaxQuotes quotes under different names, each the home-team
\* name, the away-team name, the label Draw or another name, with a price.
QuoteNames == {"home", "away", "Draw", "other"}
QuotePrices == 1..MaxQuotePrice
Quotes == [Name : QuoteNames, Price : QuotePrices]
Outcomes ==
    {q \in UNION {[1..n -> Quotes] : n \in 0..MaxQuotes} :
        \A i, j \in DOMAIN q : i # j => q[i].Name # q[j].Name}

\* An odds record as it is decoded: market says whether the record has a
\* bookmaker with a market.
RawQuotesRecords ==
    {r \in [ID : MatchIds, CommenceTime : Times, market : BOOLEAN, outcomes : Outcomes] :
        ~r.market => r.outcomes = <<>>}

\* The semantics of the range loop variable the build gives the loop of
\* processOddsEvent: one variable per iteration (Go 1.22 and later, by the
\* go directive of go.mod) or one variable for the whole loop (before).  The
\* repository carries no go.mod, so either build is possible.
LoopVarSemantics == {"per-iteration", "per-loop"}

\* Mutant of PointedPrice: the price of the first quote is taken.
PointedPriceFirst(outcomes, name, loopvar) ==
    IF \A i \in DOMAIN outcomes : outcomes[i].Name # name THEN NULL
    ELSE outcomes[1].Price

\* processOddsEvent, one odds field: nil when no outcome carries the name;
\* else the pointer &outcome.Price taken in the iteration of that outcome.
\* It points to that outcome's copy when the variable is per iteration, and
\* to the one loop variable, which holds the last outcome after the loop,
\* when it is per loop.
PointedPrice(outcomes, name, loopvar) ==
    IF \A i \in DOMAIN outcomes : outcomes[i].Name # name THEN NULL
    ELSE IF loopvar = "per-iteration"
         THEN outcomes[CHOOSE i \in DOMAIN outcomes : outcomes[i].Name = name].Price
         ELSE outcomes[Len(outcomes)].Price

\* The decoded record with the price each of the three pointers yields.
PointedOdds(r, loopvar) ==
    [ID |-> r.ID, CommenceTime |-> r.CommenceTime,
     home |-> IF r.market THEN PointedPrice(r.outcomes, "home", loopvar) ELSE NULL,
     draw |-> IF r.market THEN PointedPrice(r.outcomes, "Draw", loopvar) ELSE NULL,
     away |-> IF r.market THEN PointedPrice(r.outcomes, "away", loopvar) ELSE NULL]

\* processOddsEvent on a decoded record.
processRawOddsEvent(r, loopvar) == processOddsEvent(PointedOdds(r, loopvar))

(* --------------------------- match store ------------------------------ *)
\* GetMatchByAPIID: the row, or NoRow (the caller sees an error).
GetMatchByAPIID(ms, apiID) == ms[apiID]

\* The INSERT of UpsertMatch: absent scores are written as -1.
InsertRow(match) ==
    [commence_time |-> match.CommenceTime,
     home_odds |-> match.HomeOdds, draw_odds |-> match.DrawOdds,
     away_odds |-> match.AwayOdds, completed |-> match.Completed,
     home_score |-> IF match.HomeScore # NULL THEN match.HomeScore ELSE NoScore,
     away_score |-> IF match.AwayScore # NULL THEN match.AwayScore ELSE NoScore,
     calculated |-> match.Calculated, result |-> match.Result]

\* Mutant of UpdateRow: an odds column is written only while it is NULL.
UpdateRowKeepsOdds(row, match) ==
    [row EXCEPT
        !.commence_time = match.CommenceTime,
        !.home_odds = IF match.HomeOdds # NULL /\ @ = NULL THEN match.HomeOdds ELSE @,
        !.draw_odds = IF match.DrawOdds # NULL /\ @ = NULL THEN match.DrawOdds ELSE @,
        !.away_odds = IF match.AwayOdds # NULL /\ @ = NULL THEN match.AwayOdds ELSE @,
        !.home_score = IF match.HomeScore # NULL THEN match.HomeScore ELSE @,
        !.away_score = IF match.AwayScore # NULL THEN match.AwayScore ELSE @,
        !.completed = match.Completed]

\* Mutant of UpdateRow: odds are written even when the incoming value is nil.
UpdateRowNoNullSkip(row, match) ==
    [row EXCEPT
        !.commence_time = match.CommenceTime,
        !.home_odds = match.HomeOdds,
        !.draw_odds = match.DrawOdds,
        !.away_odds = match.AwayOdds,
        !.home_score = IF match.HomeScore # NULL THEN match.HomeScore ELSE @,
        !.away_score = IF match.AwayScore # NULL THEN match.AwayScore ELSE @,
        !.completed = match.Completed]

\* Mutant of UpdateRow: the update also writes the struct's Calculated/Result.
UpdateRowResetsCalculated(row, match) ==
    [row EXCEPT
        !.commence_time = match.CommenceTime,
        !.home_odds = IF match.HomeOdds # NULL THEN match.HomeOdds ELSE @,
        !.draw_odds = IF match.DrawOdds # NULL THEN match.DrawOdds ELSE @,
        !.away_odds = IF match.AwayOdds # NULL THEN match.AwayOdds ELSE @,
        !.home_score = IF match.HomeScore # NULL THEN match.HomeScore ELSE @,
        !.away_score = IF match.AwayScore # NULL THEN match.AwayScore ELSE @,
        !.completed = match.Completed,
        !.calculated = match.Calculated,
        !.result = match.Result]

\* The dynamic UPDATE of UpdateMatchByAPIID: a column is set when the struct
\* field is non-nil; completed is always set; calculated and result never.
UpdateRow(row, match) ==
    [row EXCEPT
        !.commence_time = match.CommenceTime,
        !.home_odds = IF match.HomeOdds # NULL THEN match.HomeOdds ELSE @,
        !.draw_odds = IF match.DrawOdds # NULL THEN match.DrawOdds ELSE @,
        !.away_odds = IF match.AwayOdds # NULL THEN match.AwayOdds ELSE @,
        !.home_score = IF match.HomeScore # NULL THEN match.HomeScore ELSE @,
        !.away_score = IF match.AwayScore # NULL THEN match.AwayScore ELSE @,
        !.completed = match.Completed]

\* UpdateMatchByAPIID: no row matches the WHERE clause -> nothing changes
\* (the RETURNING scan then fails and the caller sees an error).
UpdateMatchByAPIID(ms, apiID, match) ==
    IF ms[apiID] = NoRow THEN ms
    ELSE [ms EXCEPT ![apiID] = UpdateRow(ms[apiID], match)]

\* UpsertMatch.  found: whether its own GetMatchByAPIID call succeeded.  The
\* INSERT of an api_id that is already stored violates the UNIQUE constraint
\* and changes nothing.
UpsertMatch(ms, match, found) ==
    IF found /\ ms[match.APIID] # NoRow
    THEN UpdateMatchByAPIID(ms, match.APIID, match)
    ELSE IF ms[match.APIID] = NoRow
         THEN [ms EXCEPT ![match.APIID] = InsertRow(match)]
         ELSE ms


\* Mutant of GetCompletedUncalculatedMatches: the -1 filter is missing.
CandidatesWithoutSentinelFilter(ms) ==
    {id \in ApiIds :
        /\ ms[id] # NoRow
        /\ ms[id].completed /\ ~ms[id].calculated
        /\ ms[id].home_score # NULL /\ ms[id].away_score # NULL}

\* GetCompletedUncalculatedMatches: the api_ids the query returns.
GetCompletedUncalculatedMatches(ms) ==
    {id \in ApiIds :
        /\ ms[id] # NoRow
        /\ ms[id].completed /\ ~ms[id].calculated
        /\ ms[id].home_score # NULL /\ ms[id].away_score # NULL
        /\ ms[id].home_score # NoScore /\ ms[id].away_score # NoScore}

\* UpdateMatchCalculated.
UpdateMatchCalculated(ms, apiID, result) ==
    IF ms[apiID] = NoRow THEN ms
    ELSE [ms EXCEPT ![apiID].calculated = TRUE, ![apiID].result = result]

(* ------------------------------ ledger -------------------------------- *)
\* Mutant of BetsToUpdate: the status = 'pending' condition is missing.
BetsToUpdateAnyStatus(bs, matchAPIID) ==
    {b \in DOMAIN bs : bs[b].match_id = matchAPIID}

\* The rows the bulk UPDATE of UpdateBetsStatusAndUserMoney matches:
\* WHERE match_id = $2 AND status = 'pending'.
BetsToUpdate(bs, matchAPIID) ==
    {b \in DOMAIN bs : bs[b].match_id = matchAPIID /\ bs[b].status = "pending"}

\* Mutant of NewStatus: the CASE branches are swapped.
NewStatusSwapped(bet, result) ==
    IF bet.bet_type = result THEN "lost" ELSE "won"

\* SET status = CASE WHEN bet_type = $1 THEN 'won' ELSE 'lost' END.
NewStatus(bet, result) ==
    IF bet.bet_type = result THEN "won" ELSE "lost"

\* The returned rows whose status is 'won' (the winningBets slice).
WinningBets(bs, rows, result) ==
    {b \in rows : NewStatus(bs[b], result) = "won"}

\* Mutant of Outcome: equal scores count as a home win.
OutcomeTiesHome(homeScore, awayScore) ==
    IF homeScore >= awayScore THEN "home" ELSE "away"

\* The outcome calcHandler computes from the scores it read.
Outcome(homeScore, awayScore) ==
    IF homeScore > awayScore THEN "home"
    ELSE IF homeScore < awayScore THEN "away"
    ELSE "draw"

RECURSIVE SumWin(_, _)
\* Sum of potential_win over a set of bets.
SumWin(bs, B) ==
    IF B = {} THEN 0
    ELSE LET b == CHOOSE x \in B : TRUE
         IN bs[b].potential_win + SumWin(bs, B \ {b})

\* The money column after the winners' UPDATE users SET money = money + $1.
CreditWinners(m, bs, winners) ==
    [u \in Users |-> m[u] + SumWin(bs, {b \in winners : bs[b].user_id = u})]


(* ------------------------------ state --------------------------------- *)
\* A calc request: position, the candidates still to do, the match in work
\* with its result and the rows and winners of the open transaction, the
\* worst failure, the calculatedMatches list (updated); history: the
\* candidates read (cands), those whose transaction committed (settled) and
\* those one of whose store calls failed (failed).
IdleCalc ==
    [pc |-> "idle", todo |-> {}, cur |-> NULL, result |-> NoResult,
     rows |-> {}, winners |-> {}, errs |-> "none",
     updated |-> {}, cands |-> {}, settled |-> {}, failed |-> {}]

IdlePlace == [pc |-> "idle"]

\* lastOp: "other" when the last request to return was no calc request that
\* read its candidates, else the worst store failure of that calc request:
\* "none", "mark" (a follow-up write failed), "begin" (a transaction failed
\* before its bulk UPDATE took effect) or "rollback" (it failed after that).
NoOp == "other"

\* The worst of the failures seen so far and a new one.
Severity(e) == CASE e = "none" -> 0 [] e = "mark" -> 1 [] e = "begin" -> 2 [] OTHER -> 3
Worst(errs, e) == IF Severity(e) > Severity(errs) THEN e ELSE errs

\* The two sync pipelines; no sync request in flight; no response yet.
Pipelines == {"odds", "scores"}
IdleSync == [pc |-> "idle"]
NoResponse ==
    [status |-> 0, n |-> 0, bad |-> 0, quoted |-> 0, failures |-> 0,
     created |-> 0, updated |-> 0, skipped |-> 0]

Init ==
    /\ matches = [id \in ApiIds |-> NoRow]
    /\ bets = <<>>
    /\ money = [u \in Users |-> InitialMoney]
    /\ now = 1
    /\ calc = [w \in Workers |-> IdleCalc]
    /\ place = IdlePlace
    /\ credited = <<>>
    /\ settledCnt = <<>>
    /\ lastOp = NoOp
    /\ syncs = 0
    /\ calcs = 0
    /\ sync = [k \in Pipelines |-> IdleSync]
    /\ resp = NoResponse

\* No request is in flight.
Idle == place.pc = "idle" /\ \A w \in Workers : calc[w].pc = "idle"

\* An open settlement transaction holds row locks on the bets it updated and,
\* once it has issued the credits, on the winners' user rows.
TxOpen(w) == calc[w].pc \in {"credit", "commit"}
LockedBets(w) == IF TxOpen(w) THEN calc[w].rows ELSE {}
LockedUsers(w) ==
    IF calc[w].pc = "commit" THEN {bets[b].user_id : b \in calc[w].winners} ELSE {}

\* The scores records of a finished match with both scores known.
FinalScores == {e \in ScoresEvents : e.Completed /\ e.home # NULL /\ e.away # NULL}

(* --------------------------- sync handlers ---------------------------- *)
\* What the store calls of one loop iteration may do: <<lookup, found, write>>.
\* All succeed; the handler's lookup fails; that and the lookup inside
\* UpsertMatch fail; the write fails.
StoreOutcomes ==
    {<<TRUE, TRUE, TRUE>>, <<FALSE, TRUE, TRUE>>, <<FALSE, FALSE, TRUE>>, <<TRUE, TRUE, FALSE>>}

\* Mutant of OddsSyncStore: a new match is created whatever odds it carries.
OddsSyncStoreNoSkip(ms, event, lookup, found, write) ==
    LET match == processOddsEvent(event)
        existingMatch == GetMatchByAPIID(ms, match.APIID)
    IN IF lookup /\ existingMatch # NoRow
       THEN LET merged ==
                    [match EXCEPT
                        !.HomeOdds = IF @ = NULL THEN existingMatch.home_odds ELSE @,
                        !.DrawOdds = IF @ = NULL THEN existingMatch.draw_odds ELSE @,
                        !.AwayOdds = IF @ = NULL THEN existingMatch.away_odds ELSE @]
            IN IF write THEN UpdateMatchByAPIID(ms, match.APIID, merged) ELSE ms
       ELSE IF write THEN UpsertMatch(ms, match, found) ELSE ms

\* oddsSyncHandler, loop body for one feed record.  lookup: whether the
\* handler's GetMatchByAPIID call succeeded; found: the same for the call
\* inside UpsertMatch; write: whether the store write succeeded.
OddsSyncStore(ms, event, lookup, found, write) ==
    LET match == processOddsEvent(event)
        existingMatch == GetMatchByAPIID(ms, match.APIID)
    IN IF lookup /\ existingMatch # NoRow
       THEN LET merged ==
                    [match EXCEPT
                        !.HomeOdds = IF @ = NULL THEN existingMatch.home_odds ELSE @,
                        !.DrawOdds = IF @ = NULL THEN existingMatch.draw_odds ELSE @,
                        !.AwayOdds = IF @ = NULL THEN existingMatch.away_odds ELSE @]
            IN IF write THEN UpdateMatchByAPIID(ms, match.APIID, merged) ELSE ms
       ELSE IF match.HomeOdds = NULL \/ match.DrawOdds = NULL \/ match.AwayOdds = NULL
            THEN ms
            ELSE IF write THEN UpsertMatch(ms, match, found) ELSE ms

\* Mutant of ScoresSyncStore: the existing home and away odds are copied into
\* each other's column.
ScoresSyncStoreSwapsOdds(ms, event, lookup, found, write) ==
    LET match == processScoreEvent(event)
        existingMatch == GetMatchByAPIID(ms, match.APIID)
    IN IF lookup /\ existingMatch # NoRow
       THEN LET merged ==
                    [match EXCEPT
                        !.HomeOdds = existingMatch.away_odds,
                        !.DrawOdds = existingMatch.draw_odds,
                        !.AwayOdds = existingMatch.home_odds]
            IN IF write THEN UpdateMatchByAPIID(ms, match.APIID, merged) ELSE ms
       ELSE LET fresh ==
                    [match EXCEPT !.HomeOdds = NULL, !.DrawOdds = NULL, !.AwayOdds = NULL]
            IN IF write THEN UpsertMatch(ms, fresh, found) ELSE ms

\* scoresSyncHandler, loop body for one feed record.
ScoresSyncStore(ms, event, lookup, found, write) ==
    LET match == processScoreEvent(event)
        existingMatch == GetMatchByAPIID(ms, match.APIID)
    IN IF lookup /\ existingMatch # NoRow
       THEN LET merged ==
                    [match EXCEPT
                        !.HomeOdds = existingMatch.home_odds,
                        !.DrawOdds = existingMatch.draw_odds,
                        !.AwayOdds = existingMatch.away_odds]
            IN IF write THEN UpdateMatchByAPIID(ms, match.APIID, merged) ELSE ms
       ELSE LET fresh ==
                    [match EXCEPT !.HomeOdds = NULL, !.DrawOdds = NULL, !.AwayOdds = NULL]
            IN IF write THEN UpsertMatch(ms, fresh, found) ELSE ms

oddsSyncHandler(event, lookup, found, write) ==
    /\ syncs < MaxFeed
    /\ matches' = OddsSyncStore(matches, event, lookup, found, write)
    /\ lastOp' = NoOp
    /\ syncs' = syncs + 1
    /\ UNCHANGED <<bets, money, now, calc, place, credited, settledCnt, calcs, sync, resp>>

scoresSyncHandler(event, lookup, found, write) ==
    /\ syncs < MaxFeed
    /\ matches' = ScoresSyncStore(matches, event, lookup, found, write)
    /\ lastOp' = NoOp
    /\ syncs' = syncs + 1
    /\ UNCHANGED <<bets, money, now, calc, place, credited, settledCnt, calcs, sync, resp>>


(* ----------------------- sync over a feed body ------------------------ *)
\* The commence_time of a feed record that time.Time cannot parse.
BadTime == 0

\* A record of the odds feed body as fetched: "id" may be missing (the
\* decoded ID is then the empty string) and "commence_time" may be
\* unparseable; the bookmaker quotes all three prices or none.
RawOddsRecords ==
    {r \in [ID : ApiIds, CommenceTime : Times \cup {BadTime},
            home : Prices \cup {NULL}, draw : Prices \cup {NULL}, away : Prices \cup {NULL}] :
        r.home = r.draw /\ r.draw = r.away}

\* The feed bodies: JSON arrays of at most MaxBatch records.
OddsBodies == UNION {[1..n -> RawOddsRecords] : n \in 0..MaxBatch}

\* Per record of a body, which store calls succeed.
StoreOutcomesFor(body) == [1..Len(body) -> StoreOutcomes]

\* A record the specification calls malformed, and one that is complete.
Malformed(r) == r.ID = EmptyID \/ r.CommenceTime = BadTime
Quoted(r) == ~Malformed(r) /\ r.home # NULL /\ r.draw # NULL /\ r.away # NULL

\* fetchOddsFromAPI: json Decode of the whole array fails when one
\* commence_time cannot be parsed; a missing "id" decodes to "".
DecodeFails(body) == \E i \in 1..Len(body) : body[i].CommenceTime = BadTime

\* oddsSyncHandler, loop body: the counter the record adds to, "failed" when
\* a store call fails (the handler logs and continues without counting).
OddsSyncCount(ms, event, lookup, found, write) ==
    LET match == processOddsEvent(event)
        existingMatch == GetMatchByAPIID(ms, match.APIID)
    IN IF lookup /\ existingMatch # NoRow
       THEN IF write THEN "updated" ELSE "failed"
       ELSE IF match.HomeOdds = NULL \/ match.DrawOdds = NULL \/ match.AwayOdds = NULL
            THEN "skipped"
            ELSE IF write /\ (existingMatch = NoRow \/ found) THEN "created" ELSE "failed"

RECURSIVE OddsSyncLoop(_, _, _, _)
\* oddsSyncHandler, the loop over the decoded events: the store and the
\* counters after it.
OddsSyncLoop(ms, events, ios, results) ==
    IF events = <<>> THEN [ms |-> ms, results |-> results]
    ELSE LET o == Head(ios)
             c == OddsSyncCount(ms, Head(events), o[1], o[2], o[3])
         IN OddsSyncLoop(OddsSyncStore(ms, Head(events), o[1], o[2], o[3]),
                         Tail(events), Tail(ios),
                         IF c = "failed" THEN results ELSE [results EXCEPT ![c] = @ + 1])

\* oddsSyncHandler over a feed body: a failed fetch answers 500 and writes
\* nothing; else the loop runs and the counters are returned.  The response
\* is recorded with what the body held: n records, bad of them malformed,
\* quoted of them complete, and failures, the store calls that failed.
oddsSync(body, ios) ==
    /\ syncs + Len(body) <= MaxFeed
    /\ syncs' = syncs + Len(body)
    /\ LET n == Len(body)
           bad == Cardinality({i \in 1..n : Malformed(body[i])})
           quoted == Cardinality({i \in 1..n : Quoted(body[i])})
           zero == [created |-> 0, updated |-> 0, skipped |-> 0]
           out == OddsSyncLoop(matches, body, ios, zero)
           failures == n - (out.results.created + out.results.updated + out.results.skipped)
       IN IF DecodeFails(body)
          THEN /\ matches' = matches
               /\ resp' = [status |-> 500, n |-> n, bad |-> bad, quoted |-> quoted,
                           failures |-> 0, created |-> 0, updated |-> 0, skipped |-> 0]
          ELSE /\ matches' = out.ms
               /\ resp' = [status |-> 200, n |-> n, bad |-> bad, quoted |-> quoted,
                           failures |-> failures, created |-> out.results.created,
                           updated |-> out.results.updated, skipped |-> out.results.skipped]
    /\ lastOp' = NoOp
    /\ UNCHANGED <<bets, money, now, calc, place, credited, settledCnt, calcs, sync>>


(* ------------------ sync handlers, statement by statement ------------- *)
\* oddsSyncHandler, first store call of the loop body: GetMatchByAPIID.  The
\* fact is merged with the row that was read; a new match without three odds
\* is skipped.
oddsSyncRead(event, lookup) ==
    /\ sync["odds"].pc = "idle"
    /\ syncs < MaxFeed
    /\ syncs' = syncs + 1
    /\ LET match == processOddsEvent(event)
           existingMatch == GetMatchByAPIID(matches, match.APIID)
       IN IF lookup /\ existingMatch # NoRow
          THEN sync' = [sync EXCEPT !["odds"] =
                    [pc |-> "write", path |-> "update",
                     match |-> [match EXCEPT
                        !.HomeOdds = IF @ = NULL THEN existingMatch.home_odds ELSE @,
                        !.DrawOdds = IF @ = NULL THEN existingMatch.draw_odds ELSE @,
                        !.AwayOdds = IF @ = NULL THEN existingMatch.away_odds ELSE @]]]
          ELSE IF match.HomeOdds = NULL \/ match.DrawOdds = NULL \/ match.AwayOdds = NULL
               THEN UNCHANGED sync
               ELSE sync' = [sync EXCEPT !["odds"] =
                        [pc |-> "write", path |-> "create", match |-> match]]
    /\ UNCHANGED <<matches, bets, money, now, calc, place, credited, settledCnt, lastOp, calcs, resp>>

\* scoresSyncHandler, first store call of the loop body: the odds of the row
\* that was read are copied into the fact.
scoresSyncRead(event, lookup) ==
    /\ sync["scores"].pc = "idle"
    /\ syncs < MaxFeed
    /\ syncs' = syncs + 1
    /\ LET match == processScoreEvent(event)
           existingMatch == GetMatchByAPIID(matches, match.APIID)
       IN IF lookup /\ existingMatch # NoRow
          THEN sync' = [sync EXCEPT !["scores"] =
                    [pc |-> "write", path |-> "update",
                     match |-> [match EXCEPT
                        !.HomeOdds = existingMatch.home_odds,
                        !.DrawOdds = existingMatch.draw_odds,
                        !.AwayOdds = existingMatch.away_odds]]]
          ELSE sync' = [sync EXCEPT !["scores"] =
                    [pc |-> "write", path |-> "create",
                     match |-> [match EXCEPT
                        !.HomeOdds = NULL, !.DrawOdds = NULL, !.AwayOdds = NULL]]]
    /\ UNCHANGED <<matches, bets, money, now, calc, place, credited, settledCnt, lastOp, calcs, resp>>

\* The second store call of either loop body: UpdateMatchByAPIID for a row
\* that was read, UpsertMatch otherwise.
SyncWrite(k, found, write) ==
    /\ sync[k].pc = "write"
    /\ matches' =
        IF ~write THEN matches
        ELSE IF sync[k].path = "update"
             THEN UpdateMatchByAPIID(matches, sync[k].match.APIID, sync[k].match)
             ELSE UpsertMatch(matches, sync[k].match, found)
    /\ sync' = [sync EXCEPT ![k] = IdleSync]
    /\ lastOp' = NoOp
    /\ UNCHANGED <<bets, money, now, calc, place, credited, settledCnt, syncs, calcs, resp>>


(* ---------------------------- calcHandler ----------------------------- *)
\* Mutant of ContinueWith: a failed candidate ends the loop.
BreakLoop(todo) == {}

\* The candidates left after a failed store call: the handler logs the error
\* and continues with the next candidate.
ContinueWith(todo) == todo

\* The handler reads the candidates; a failed query ends the request (500).
\* Each candidate is kept with the scores that were read.
CalcStart(w, ok) ==
    /\ calc[w].pc = "idle"
    /\ calcs < MaxCalcs
    /\ calcs' = calcs + 1
    /\ IF ok
       THEN /\ calc' = [calc EXCEPT ![w] =
                    [IdleCalc EXCEPT
                        !.pc = "loop",
                        !.cands = GetCompletedUncalculatedMatches(matches),
                        !.todo = {[APIID |-> id,
                                   HomeScore |-> matches[id].home_score,
                                   AwayScore |-> matches[id].away_score] :
                                  id \in GetCompletedUncalculatedMatches(matches)}]]
            /\ UNCHANGED lastOp
       ELSE /\ lastOp' = NoOp
            /\ UNCHANGED calc
    /\ UNCHANGED <<matches, bets, money, now, place, credited, settledCnt, syncs, sync, resp>>

\* UpdateBetsStatusAndUserMoney, first statement: the transaction begins and
\* the bulk UPDATE runs for the next candidate.  It waits while another open
\* transaction holds a lock on a row it matches.
CalcUpdateBets(w) ==
    /\ calc[w].pc = "loop"
    /\ \E match \in calc[w].todo :
        LET result == Outcome(match.HomeScore, match.AwayScore)
            rows == BetsToUpdate(bets, match.APIID)
        IN /\ \A v \in Workers \ {w} : LockedBets(v) \cap rows = {}
           /\ calc' = [calc EXCEPT ![w] =
                    [@ EXCEPT !.pc = "credit", !.todo = @ \ {match},
                              !.cur = match.APIID, !.result = result, !.rows = rows,
                              !.winners = WinningBets(bets, rows, result)]]
    /\ UNCHANGED <<matches, bets, money, now, place, credited, settledCnt, lastOp, syncs, calcs, sync, resp>>

\* The transaction cannot begin, or the bulk UPDATE fails or times out: the
\* handler logs and continues with the next candidate.
CalcUpdateBetsFail(w) ==
    /\ calc[w].pc = "loop"
    /\ \E match \in calc[w].todo :
        calc' = [calc EXCEPT ![w] =
                    [@ EXCEPT !.todo = ContinueWith(@ \ {match}),
                              !.failed = @ \cup {match.APIID},
                              !.errs = Worst(@, "begin")]]
    /\ UNCHANGED <<matches, bets, money, now, place, credited, settledCnt, lastOp, syncs, calcs, sync, resp>>

\* The winners' balance UPDATEs, inside the transaction.  They wait while
\* another open transaction holds a lock on one of the user rows.
CalcCredit(w) ==
    /\ calc[w].pc = "credit"
    /\ \A v \in Workers \ {w} :
        LockedUsers(v) \cap {bets[b].user_id : b \in calc[w].winners} = {}
    /\ calc' = [calc EXCEPT ![w].pc = "commit"]
    /\ UNCHANGED <<matches, bets, money, now, place, credited, settledCnt, lastOp, syncs, calcs, sync, resp>>

\* Mutant of RolledBack: the bulk UPDATE was issued outside the transaction,
\* so the statuses stay written when a later statement fails.
RolledBackKeepsStatuses(bs, rows, result) ==
    [b \in DOMAIN bs |->
        IF b \in rows THEN [bs[b] EXCEPT !.status = NewStatus(bs[b], result)] ELSE bs[b]]

\* The bets table after the deferred tx.Rollback of a failed transaction.
RolledBack(bs, rows, result) == bs

\* The bets table after tx.Commit.
Committed(bs, rows, result) ==
    [b \in DOMAIN bs |->
        IF b \in rows THEN [bs[b] EXCEPT !.status = NewStatus(bs[b], result)] ELSE bs[b]]

\* A statement after the bulk UPDATE fails (a credit, the commit, the 30 s
\* timeout): the function returns the error, the deferred Rollback runs, and
\* the handler continues with the next candidate.
CalcTxFail(w) ==
    /\ TxOpen(w)
    /\ bets' = RolledBack(bets, calc[w].rows, calc[w].result)
    /\ calc' = [calc EXCEPT ![w] =
                [@ EXCEPT !.pc = "loop", !.cur = NULL, !.result = NoResult, !.rows = {},
                          !.winners = {}, !.errs = "rollback",
                          !.todo = ContinueWith(@), !.failed = @ \cup {calc[w].cur}]]
    /\ UNCHANGED <<matches, money, now, place, credited, settledCnt, lastOp, syncs, calcs, sync, resp>>

\* tx.Commit: the statuses and the credits become visible together.
CalcCommit(w) ==
    /\ calc[w].pc = "commit"
    /\ bets' = Committed(bets, calc[w].rows, calc[w].result)
    /\ money' = CreditWinners(money, bets, calc[w].winners)
    /\ credited' = [b \in DOMAIN credited |->
                        IF b \in calc[w].winners THEN credited[b] + 1 ELSE credited[b]]
    /\ settledCnt' = [b \in DOMAIN settledCnt |->
                        IF b \in calc[w].rows THEN settledCnt[b] + 1 ELSE settledCnt[b]]
    /\ calc' = [calc EXCEPT ![w] =
                [@ EXCEPT !.pc = "mark", !.rows = {}, !.winners = {},
                          !.settled = @ \cup {calc[w].cur}]]
    /\ UNCHANGED <<matches, now, place, lastOp, syncs, calcs, sync, resp>>

\* The follow-up write UpdateMatchCalculated; when it fails the handler logs
\* and continues, and the match is not reported.
CalcMark(w, ok) ==
    /\ calc[w].pc = "mark"
    /\ matches' = IF ok THEN UpdateMatchCalculated(matches, calc[w].cur, calc[w].result)
                  ELSE matches
    /\ calc' = [calc EXCEPT ![w] =
                IF ok
                THEN [@ EXCEPT !.pc = "loop", !.cur = NULL, !.result = NoResult,
                               !.updated = @ \cup {[APIID |-> calc[w].cur,
                                                    result |-> calc[w].result]}]
                ELSE [@ EXCEPT !.pc = "loop", !.cur = NULL, !.result = NoResult,
                               !.todo = ContinueWith(@), !.failed = @ \cup {calc[w].cur},
                               !.errs = Worst(@, "mark")]]
    /\ UNCHANGED <<bets, money, now, place, credited, settledCnt, lastOp, syncs, calcs, sync, resp>>

\* Mutant of LoopFinished: the notification does not wait for the loop.
LoopRunning(c) == TRUE

\* The loop over the candidates has ended.
LoopFinished(c) == c.todo = {}

\* The notification outcomes: not configured, sent, failed.
NotifyOutcomes == {"off", "sent", "failed"}

\* After the loop: sendTelegramNotification is called when the bot token and
\* the channel are configured; its error is logged and nothing depends on
\* the outcome.
CalcNotify(w, outcome) ==
    /\ calc[w].pc = "loop"
    /\ LoopFinished(calc[w])
    /\ outcome \in NotifyOutcomes
    /\ calc' = [calc EXCEPT ![w] = [@ EXCEPT !.pc = "respond"]]
    /\ UNCHANGED <<matches, bets, money, now, place, credited, settledCnt, lastOp, syncs, calcs,
                   sync, resp>>

\* The JSON the handler answers with: status 200, the count and the list.
CalcResponse(c) ==
    [status |-> 200, updated |-> Cardinality(c.updated), matches |-> c.updated]

\* The summary is returned.
CalcReturn(w) ==
    /\ calc[w].pc = "respond"
    /\ lastOp' = calc[w].errs
    /\ calc' = [calc EXCEPT ![w] = IdleCalc]
    /\ UNCHANGED <<matches, bets, money, now, place, credited, settledCnt, syncs, calcs, sync, resp>>


(* -------------------------- placeBetHandler --------------------------- *)
BetRequests ==
    [MatchID : MatchIds, BetType : BetTypes, BetAmount : 1..MaxStake, Odds : 2..MaxBetOdds]

\* The handler's check of the match: it exists and has not started.
MatchOpenForBets(ms, matchID, t) ==
    /\ ms[matchID] # NoRow
    /\ ~(ms[matchID].commence_time < t)

\* GetUserByID, the request's validation and the match check.  A rejected
\* request changes nothing and is not modelled.
PlaceStart(u, req) ==
    /\ place.pc = "idle"
    /\ Len(bets) < MaxBets
    /\ req.BetAmount <= money[u]
    /\ MatchOpenForBets(matches, req.MatchID, now)
    /\ place' = [pc |-> "insert", user |-> u, Money |-> money[u], req |-> req]
    /\ UNCHANGED <<matches, bets, money, now, calc, credited, settledCnt, lastOp, syncs, calcs, sync, resp>>

\* PlaceBet: the INSERT of the pending bet; on failure the handler returns.
PlaceInsert(ok) ==
    /\ place.pc = "insert"
    /\ IF ok
       THEN /\ bets' = Append(bets,
                    [user_id |-> place.user, match_id |-> place.req.MatchID,
                     bet_type |-> place.req.BetType,
                     potential_win |-> place.req.BetAmount * place.req.Odds,
                     status |-> "pending"])
            /\ credited' = Append(credited, 0)
            /\ settledCnt' = Append(settledCnt, 0)
            /\ place' = [place EXCEPT !.pc = "money"]
            /\ UNCHANGED lastOp
       ELSE /\ place' = IdlePlace
            /\ lastOp' = NoOp
            /\ UNCHANGED <<bets, credited, settledCnt>>
    /\ UNCHANGED <<matches, money, now, calc, syncs, calcs, sync, resp>>

\* UpdateUserMoney with the balance computed from the value read at the
\* start; it waits while a settlement transaction holds the user's row.
PlaceMoney(ok) ==
    /\ place.pc = "money"
    /\ \A w \in Workers : place.user \notin LockedUsers(w)
    /\ money' = IF ok THEN [money EXCEPT ![place.user] = place.Money - place.req.BetAmount]
                ELSE money
    /\ place' = IdlePlace
    /\ lastOp' = NoOp
    /\ UNCHANGED <<matches, bets, now, calc, credited, settledCnt, syncs, calcs, sync, resp>>

(* ---------------------------- topupHandler ---------------------------- *)
\* GetUserByID and the balance check.  The once-a-day check passes: it is the
\* user's first top-up of the day, or the last_topup_at lookup or the earlier
\* IncrementUserTopup failed, which the handler only logs.  A rejected
\* request changes nothing and is not modelled.
TopupStart(u) ==
    /\ place.pc = "idle"
    /\ money[u] < MaxTopupBalance
    /\ place' = [pc |-> "topup", user |-> u, Money |-> money[u]]
    /\ UNCHANGED <<matches, bets, money, now, calc, credited, settledCnt, lastOp, syncs, calcs, sync, resp>>

\* UpdateUserMoney with the balance computed from the value read at the
\* start; it waits while a settlement transaction holds the user's row.
TopupMoney(ok) ==
    /\ place.pc = "topup"
    /\ \A w \in Workers : place.user \notin LockedUsers(w)
    /\ money' = IF ok THEN [money EXCEPT ![place.user] = place.Money + TopupAmount]
                ELSE money
    /\ place' = IdlePlace
    /\ lastOp' = NoOp
    /\ UNCHANGED <<matches, bets, now, calc, credited, settledCnt, syncs, calcs, sync, resp>>

\* Time passes.
Tick ==
    /\ now <= MaxTime
    /\ now' = now + 1
    /\ UNCHANGED <<matches, bets, money, calc, place, credited, settledCnt, lastOp, syncs, calcs, sync, resp>>

(* --------------------------- specifications --------------------------- *)
\* The requests that are in flight take their next step.
Continue ==
    \/ \E w \in Workers : CalcUpdateBets(w)
    \/ \E w \in Workers : CalcUpdateBetsFail(w)
    \/ \E w \in Workers : CalcCredit(w)
    \/ \E w \in Workers : CalcTxFail(w)
    \/ \E w \in Workers : CalcCommit(w)
    \/ \E w \in Workers, ok \in BOOLEAN : CalcMark(w, ok)
    \/ \E w \in Workers, outcome \in NotifyOutcomes : CalcNotify(w, outcome)
    \/ \E w \in Workers : CalcReturn(w)
    \/ \E ok \in BOOLEAN : PlaceInsert(ok)
    \/ \E ok \in BOOLEAN : PlaceMoney(ok)

\* A sync request may still be served within the budget of the lifecycle.
SyncLeft == syncs < MaxSyncs

\* Requests are served one at a time.
Next ==
    \/ Idle /\ SyncLeft
            /\ \E e \in QuotedOrNot, o \in StoreOutcomes : oddsSyncHandler(e, o[1], o[2], o[3])
    \/ Idle /\ SyncLeft
            /\ \E e \in ScoresEvents, o \in StoreOutcomes : scoresSyncHandler(e, o[1], o[2], o[3])
    \/ Idle /\ \E ok \in BOOLEAN : CalcStart(1, ok)
    \/ Idle /\ \E u \in Users, req \in BetRequests : PlaceStart(u, req)
    \/ Idle /\ Tick
    \/ Continue

Spec == Init /\ [][Next]_vars

\* A request is served by the first worker that is free.
FirstFree(w) == \A v \in Workers : v < w => calc[v].pc # "idle"

\* Settlement under overlap: calc requests overlap with each other and with
\* scores syncs that report final scores; a bet is placed while no calc
\* request is in flight.
ConcNext ==
    \/ SyncLeft
            /\ \E e \in FinalScores, o \in StoreOutcomes : scoresSyncHandler(e, o[1], o[2], o[3])
    \/ place.pc = "idle" /\ \E w \in Workers, ok \in BOOLEAN : FirstFree(w) /\ CalcStart(w, ok)
    \/ Idle /\ \E u \in Users, req \in BetRequests : PlaceStart(u, req)
    \/ Continue

ConcSpec == Init /\ [][ConcNext]_vars

\* The two sync pipelines alone, over every odds record, one record at a time.
MergeNext ==
    \/ \E e \in OddsEvents, o \in StoreOutcomes : oddsSyncHandler(e, o[1], o[2], o[3])
    \/ \E e \in ScoresEvents, o \in StoreOutcomes : scoresSyncHandler(e, o[1], o[2], o[3])

MergeSpec == Init /\ [][MergeNext]_vars

\* Odds sync requests over whole feed bodies, one request at a time.
BatchNext ==
    \E body \in OddsBodies : \E ios \in StoreOutcomesFor(body) : oddsSync(body, ios)

BatchSpec == Init /\ [][BatchNext]_vars

\* An odds sync request and a scores sync request that overlap, each on one
\* feed record at a time.
RaceNext ==
    \/ \E e \in QuotedOrNot, lookup \in BOOLEAN : oddsSyncRead(e, lookup)
    \/ \E e \in ScoresEvents, lookup \in BOOLEAN : scoresSyncRead(e, lookup)
    \/ \E k \in Pipelines, found \in BOOLEAN, write \in BOOLEAN : SyncWrite(k, found, write)

RaceSpec == Init /\ [][RaceNext]_vars


\* The rows a scores sync creates from a final scores record.
FinalRows == {InsertRow(processScoreEvent(e)) : e \in FinalScores}

\* The pending bets that can have been placed on the stored matches of ms.
PendingBets(ms) ==
    [user_id : Users, match_id : {id \in ApiIds : ms[id] # NoRow}, bet_type : BetTypes,
     potential_win : {a * o : a \in 1..MaxStake, o \in 2..MaxBetOdds}, status : {"pending"}]

\* A store in which scores syncs have created completed matches and bets
\* were placed on them; no request is in flight.
SettleInit ==
    /\ matches \in {ms \in [ApiIds -> FinalRows \cup {NoRow}] : ms[EmptyID] = NoRow}
    /\ bets \in UNION {[1..n -> PendingBets(matches)] : n \in 0..MaxBets}
    /\ money = [u \in Users |-> InitialMoney]
    /\ now = 1
    /\ calc = [w \in Workers |-> IdleCalc]
    /\ place = IdlePlace
    /\ credited = [b \in DOMAIN bets |-> 0]
    /\ settledCnt = [b \in DOMAIN bets |-> 0]
    /\ lastOp = NoOp
    /\ syncs = 0
    /\ calcs = 0
    /\ sync = [k \in Pipelines |-> IdleSync]
    /\ resp = NoResponse

\* Calc requests, one at a time, over such a store.
SettleNext ==
    \/ calc[1].pc = "idle" /\ \E ok \in BOOLEAN : CalcStart(1, ok)
    \/ CalcUpdateBets(1)
    \/ CalcUpdateBetsFail(1)
    \/ CalcCredit(1)
    \/ CalcTxFail(1)
    \/ CalcCommit(1)
    \/ \E ok \in BOOLEAN : CalcMark(1, ok)
    \/ \E outcome \in NotifyOutcomes : CalcNotify(1, outcome)
    \/ CalcReturn(1)

SettleSpec == SettleInit /\ [][SettleNext]_vars

\* scoresSyncHandler, loop body for one decoded record of the scores feed.
scoresSyncRaw(r, lookup, found, write) ==
    scoresSyncHandler(ParsedScores(r), lookup, found, write)

\* Odds syncs and scores syncs over decoded records, one request at a time.
RawNext ==
    \/ \E e \in QuotedOrNot, o \in StoreOutcomes : oddsSyncHandler(e, o[1], o[2], o[3])
    \/ \E r \in RawScoresRecords, o \in StoreOutcomes : scoresSyncRaw(r, o[1], o[2], o[3])

RawSpec == Init /\ [][RawNext]_vars

\* oddsSyncHandler, loop body for one decoded record of the odds feed.
oddsSyncRaw(r, loopvar, lookup, found, write) ==
    oddsSyncHandler(PointedOdds(r, loopvar), lookup, found, write)

\* Odds syncs over decoded records, one request at a time, under either
\* semantics of the loop variable.
QuotesNext ==
    \E r \in RawQuotesRecords, loopvar \in LoopVarSemantics, o \in StoreOutcomes :
        oddsSyncRaw(r, loopvar, o[1], o[2], o[3])

QuotesSpec == Init /\ [][QuotesNext]_vars

\* The rows a scores sync creates from a record of a completed match that
\* lacks a score.
WaitingRows ==
    {InsertRow(processScoreEvent(e)) :
        e \in {x \in ScoresEvents : x.Completed /\ (x.home = NULL \/ x.away = NULL)}}

\* One stored match that is completed and lacks a score, with pending bets.
WaitInit ==
    /\ matches \in {ms \in [ApiIds -> WaitingRows \cup {NoRow}] :
                        \A id \in ApiIds : ms[id] # NoRow <=> id = 1}
    /\ bets \in UNION {[1..n -> PendingBets(matches)] : n \in 0..MaxBets}
    /\ money = [u \in Users |-> InitialMoney]
    /\ now = 1
    /\ calc = [w \in Workers |-> IdleCalc]
    /\ place = IdlePlace
    /\ credited = [b \in DOMAIN bets |-> 0]
    /\ settledCnt = [b \in DOMAIN bets |-> 0]
    /\ lastOp = NoOp
    /\ syncs = 0
    /\ calcs = 0
    /\ sync = [k \in Pipelines |-> IdleSync]
    /\ resp = NoResponse

\* A calc request whose store operations succeed.
CalcSucceeds ==
    \/ Idle /\ CalcStart(1, TRUE)
    \/ CalcUpdateBets(1)
    \/ CalcCredit(1)
    \/ CalcCommit(1)
    \/ CalcMark(1, TRUE)
    \/ \E outcome \in NotifyOutcomes : CalcNotify(1, outcome)
    \/ CalcReturn(1)

\* Scores syncs and calc requests, one request at a time.
WaitNext ==
    \/ Idle /\ SyncLeft
            /\ \E e \in ScoresEvents, o \in StoreOutcomes : scoresSyncHandler(e, o[1], o[2], o[3])
    \/ CalcSucceeds

\* A calc request that can be made is made, and the handler takes its steps.
WaitSpec == WaitInit /\ [][WaitNext]_vars /\ WF_vars(CalcSucceeds)

\* Odds syncs, scores syncs and calc requests whose store operations succeed,
\* one request at a time, with no bets placed.
ReportNext ==
    \/ Idle /\ \E e \in OddsEvents, o \in StoreOutcomes : oddsSyncHandler(e, o[1], o[2], o[3])
    \/ Idle /\ \E e \in ScoresEvents, o \in StoreOutcomes : scoresSyncHandler(e, o[1], o[2], o[3])
    \/ CalcSucceeds

ReportSpec == Init /\ [][ReportNext]_vars

\* Settlement under overlap with the balance writers: calc requests whose
\* store operations succeed, over a store of completed matches with pending
\* bets, while a user places a bet or tops up.
LedgerNext ==
    \/ CalcSucceeds
    \/ \E u \in Users, req \in BetRequests : PlaceStart(u, req)
    \/ \E ok \in BOOLEAN : PlaceInsert(ok)
    \/ \E ok \in BOOLEAN : PlaceMoney(ok)
    \/ \E u \in Users : TopupStart(u)
    \/ \E ok \in BOOLEAN : TopupMoney(ok)

LedgerSpec == SettleInit /\ [][LedgerNext]_vars

(* ------------------- waits on the feed and on Telegram ---------------- *)
\* fetchOddsFromAPI / fetchScoresFromAPI: http.Get is issued and the handler
\* waits for the feed.  The default client has no timeout.
SyncFetch(k) ==
    /\ sync[k].pc = "idle"
    /\ syncs < MaxSyncs
    /\ syncs' = syncs + 1
    /\ sync' = [sync EXCEPT ![k] = [pc |-> "fetch"]]
    /\ UNCHANGED <<matches, bets, money, now, calc, place, credited, settledCnt, lastOp, calcs, resp>>

\* The odds feed answers: with an error (500, nothing written) or with a
\* record, which the loop of oddsSyncHandler stores; then the handler returns.
OddsFetched(ok, event, lookup, found, write) ==
    /\ sync["odds"].pc = "fetch"
    /\ matches' = IF ok THEN OddsSyncStore(matches, event, lookup, found, write) ELSE matches
    /\ sync' = [sync EXCEPT !["odds"] = IdleSync]
    /\ lastOp' = NoOp
    /\ UNCHANGED <<bets, money, now, calc, place, credited, settledCnt, syncs, calcs, resp>>

\* The scores feed answers, likewise.
ScoresFetched(ok, event, lookup, found, write) ==
    /\ sync["scores"].pc = "fetch"
    /\ matches' = IF ok THEN ScoresSyncStore(matches, event, lookup, found, write) ELSE matches
    /\ sync' = [sync EXCEPT !["scores"] = IdleSync]
    /\ lastOp' = NoOp
    /\ UNCHANGED <<bets, money, now, calc, place, credited, settledCnt, syncs, calcs, resp>>

\* calcHandler after the loop, bot token and channel configured:
\* sendTelegramNotification issues http.Post and waits for Telegram.  The
\* default client has no timeout.
CalcNotifySend(w) ==
    /\ calc[w].pc = "loop"
    /\ LoopFinished(calc[w])
    /\ calc' = [calc EXCEPT ![w] = [@ EXCEPT !.pc = "notify"]]
    /\ UNCHANGED <<matches, bets, money, now, place, credited, settledCnt, lastOp, syncs, calcs,
                   sync, resp>>

\* Telegram answers: the notification was sent or failed; the error is logged.
TelegramAnswers(w, outcome) ==
    /\ calc[w].pc = "notify"
    /\ outcome \in {"sent", "failed"}
    /\ calc' = [calc EXCEPT ![w] = [@ EXCEPT !.pc = "respond"]]
    /\ UNCHANGED <<matches, bets, money, now, place, credited, settledCnt, lastOp, syncs, calcs,
                   sync, resp>>

\* The steps of calc request w that the handler takes by itself.  Every store
\* call runs under context.WithTimeout (10 s, 30 s for the settlement
\* transaction), so it returns, with its result or with an error.
CalcProgress(w) ==
    \/ CalcUpdateBets(w)
    \/ CalcUpdateBetsFail(w)
    \/ CalcCredit(w)
    \/ CalcTxFail(w)
    \/ CalcCommit(w)
    \/ \E ok \in BOOLEAN : CalcMark(w, ok)
    \/ CalcNotifySend(w)
    \/ CalcReturn(w)

\* The three admin requests with their waits on the feed and on Telegram.
LiveNext ==
    \/ \E k \in Pipelines : SyncFetch(k)
    \/ \E ok \in BOOLEAN, e \in QuotedOrNot, o \in StoreOutcomes :
            OddsFetched(ok, e, o[1], o[2], o[3])
    \/ \E ok \in BOOLEAN, e \in ScoresEvents, o \in StoreOutcomes :
            ScoresFetched(ok, e, o[1], o[2], o[3])
    \/ \E ok \in BOOLEAN : CalcStart(1, ok)
    \/ CalcProgress(1)
    \/ \E outcome \in {"sent", "failed"} : TelegramAnswers(1, outcome)

\* The handler's own steps are taken; nothing makes the feed or Telegram
\* answer.
LiveSpec == Init /\ [][LiveNext]_vars /\ WF_vars(CalcProgress(1))

(* ------------------------------ claims -------------------------------- *)
Stored == {id \in ApiIds : matches[id] # NoRow}
Terminal(b) == bets[b].status \in {"won", "lost"}
PendingOn(id) == {b \in DOMAIN bets : bets[b].match_id = id /\ bets[b].status = "pending"}

\* A step of a calc request.
CalcStep == \E w \in Workers : calc'[w] # calc[w]

\* C1: a calc request that directly follows a calc request whose settlement
\* transactions all committed changes no bet status and no balance; when the
\* follow-up writes of that request succeeded as well, it changes no
\* calculated flag and no result either.
C1_SettleTwice ==
    [][CalcStep =>
        /\ lastOp \in {"none", "mark"} => bets' = bets /\ money' = money
        /\ lastOp = "none" => matches' = matches]_vars

\* C1 witness: the second calc request runs after a first one that settled a
\* match with a winning bet and marked it calculated.
C1_Witness ==
    /\ lastOp = "none"
    /\ calc[1].pc = "loop"
    /\ \E b \in DOMAIN bets :
        /\ bets[b].status = "won"
        /\ matches[bets[b].match_id].calculated

\* C2: with overlapping calc requests every bet is transitioned at most once
\* and credited at most once, a bet is won exactly when it was credited once
\* and terminal exactly when it was transitioned once, and once a request's
\* transaction for a match has committed no bet on that match is pending.
C2_ExactlyOnce ==
    /\ \A b \in DOMAIN bets :
        /\ settledCnt[b] <= 1
        /\ credited[b] <= 1
        /\ bets[b].status = "won" <=> credited[b] = 1
        /\ Terminal(b) <=> settledCnt[b] = 1
    /\ \A w \in Workers : calc[w].pc = "mark" => PendingOn(calc[w].cur) = {}

\* C2 witness: two calc requests read the same match as a candidate and both
\* have committed their transaction for it; a bet on it was won.
C2_Witness ==
    /\ calc[1].pc = "mark" /\ calc[2].pc = "mark"
    /\ calc[1].cur = calc[2].cur
    /\ \E b \in DOMAIN bets : bets[b].match_id = calc[1].cur /\ bets[b].status = "won"

\* A settlement transaction fails after its bulk UPDATE was issued.
TxFailStep(w) == calc[w].pc \in {"credit", "commit"} /\ calc'[w].pc = "loop"

\* C3: when a settlement transaction fails after the bulk UPDATE, no bet
\* status and no balance changes and the match is still a candidate
\* (completed, not calculated); and in no state is a bet won without its
\* credit.
C3_Atomic ==
    /\ [][\A w \in Workers : TxFailStep(w) =>
            /\ bets' = bets
            /\ money' = money
            /\ matches' = matches
            /\ matches'[calc[w].cur].completed
            /\ ~matches'[calc[w].cur].calculated
            /\ calc[w].cur \in GetCompletedUncalculatedMatches(matches')]_vars
    /\ [](\A b \in DOMAIN bets : bets[b].status = "won" => credited[b] >= 1)

\* C3 witness: a transaction that had updated a winning bet has failed; the
\* bet is pending.
C3_Witness ==
    /\ calc[1].pc = "loop"
    /\ calc[1].errs = "rollback"
    /\ \E b \in DOMAIN bets :
        /\ bets[b].status = "pending"
        /\ matches[bets[b].match_id] # NoRow
        /\ matches[bets[b].match_id].completed
        /\ bets[b].bet_type =
            Outcome(matches[bets[b].match_id].home_score, matches[bets[b].match_id].away_score)
        /\ calcs = 1 /\ bets[b].match_id \notin {c.APIID : c \in calc[1].todo}
        /\ matches[bets[b].match_id].home_score # NoScore
        /\ matches[bets[b].match_id].away_score # NoScore

\* The transaction of calc request w commits.
CommitStep(w) == calc[w].pc = "commit" /\ calc'[w].pc = "mark"

\* C4: when the settlement transaction of a match commits, the result is the
\* outcome of the stored scores, every bet on the match that was pending is
\* won if its bet type equals the result and lost otherwise, and every user's
\* balance grows by exactly the sum of the potential wins of their bets that
\* became won (by nothing for a user with only losing bets).
C4_Correct ==
    [][\A w \in Workers : CommitStep(w) =>
        LET id == calc[w].cur
            r == Outcome(matches[id].home_score, matches[id].away_score)
        IN /\ calc[w].result = r
           /\ \A b \in PendingOn(id) :
                bets'[b] = [bets[b] EXCEPT
                              !.status = IF bets[b].bet_type = r THEN "won" ELSE "lost"]
           /\ \A u \in Users :
                money'[u] = money[u] +
                    SumWin(bets, {b \in PendingOn(id) :
                                    bets[b].user_id = u /\ bets[b].bet_type = r})]_vars

\* C4 witness: a transaction has committed for a match with a bet that won
\* and a bet that lost.
C4_Witness ==
    /\ calc[1].pc = "mark"
    /\ \E b1, b2 \in DOMAIN bets :
        /\ bets[b1].match_id = calc[1].cur /\ bets[b1].status = "won"
        /\ bets[b2].match_id = calc[1].cur /\ bets[b2].status = "lost"
        /\ credited[b1] = 1 /\ credited[b2] = 0

\* C5: in every reachable state a match with calculated = true has a result
\* and no bet on it is pending.
C5_CalculatedClosed ==
    \A id \in Stored :
        matches[id].calculated =>
            /\ matches[id].result # NoResult
            /\ PendingOn(id) = {}

\* C6: in every reachable state every bet on a match with calculated = true
\* is won if its bet type equals the stored result and lost otherwise.  The
\* formula states it for the bets that a settlement has transitioned (a bet
\* that is still pending on such a match is the case of C5).
C6_StatusMatchesResult ==
    \A id \in Stored :
        matches[id].calculated =>
            \A b \in DOMAIN bets :
                bets[b].match_id = id /\ Terminal(b) =>
                    bets[b].status =
                        IF bets[b].bet_type = matches[id].result THEN "won" ELSE "lost"

\* C7: a bet that is won or lost keeps its status and is not credited again,
\* whatever request takes the next step.
C7_TerminalStays ==
    [][\A b \in DOMAIN bets :
        Terminal(b) =>
            /\ bets'[b] = bets[b]
            /\ credited'[b] = credited[b]]_vars

\* C7 witness: a match whose bet was won by a calc request whose follow-up
\* write failed got new scores that make the bet a loser, and the transaction
\* of a second calc request for the match has committed.
C7_Witness ==
    /\ calcs = 2
    /\ calc[1].pc = "mark"
    /\ \E b \in DOMAIN bets :
        /\ bets[b].match_id = calc[1].cur
        /\ bets[b].status = "won"
        /\ bets[b].bet_type # calc[1].result

\* The three stored odds of a row.
Odds(row) == <<row.home_odds, row.draw_odds, row.away_odds>>
OddsColumns == {"home_odds", "draw_odds", "away_odds"}

\* C8: for a stored match whose three odds are non-null, a feed record that
\* brings no odds (an odds record without quotes, any scores record) leaves
\* the three odds as they are, through either sync handler and through
\* UpsertMatch, whatever store call fails; and no step of a sync turns a
\* non-null stored odds column into NULL.
C8_NeverErased ==
    /\ [](\A id \in Stored :
            (\A c \in OddsColumns : matches[id][c] # NULL) =>
                \A o \in StoreOutcomes :
                    /\ \A e \in OddsEvents :
                        e.ID = id /\ e.home = NULL /\ e.draw = NULL /\ e.away = NULL =>
                            /\ Odds(OddsSyncStore(matches, e, o[1], o[2], o[3])[id])
                                    = Odds(matches[id])
                            /\ Odds(UpsertMatch(matches, processOddsEvent(e), o[2])[id])
                                    = Odds(matches[id])
                    /\ \A e \in ScoresEvents :
                        e.ID = id =>
                            /\ Odds(ScoresSyncStore(matches, e, o[1], o[2], o[3])[id])
                                    = Odds(matches[id])
                            /\ Odds(UpsertMatch(matches, processScoreEvent(e), o[2])[id])
                                    = Odds(matches[id]))
    /\ [][\A id \in Stored : \A c \in OddsColumns :
            matches[id][c] # NULL => matches'[id] # NoRow /\ matches'[id][c] # NULL]_vars

\* C8 witness: a row with three odds is completed, so the last record written
\* to it was a scores record (without odds) and came after an odds record.
C8_Witness ==
    \E id \in Stored :
        /\ \A c \in OddsColumns : matches[id][c] # NULL
        /\ matches[id].completed
        /\ matches[id].home_score \in Scores

\* C9: processing an odds record for a stored match leaves its completed
\* flag as it is.
C9_OddsKeepCompleted ==
    [][\A e \in OddsEvents, o \in StoreOutcomes :
        oddsSyncHandler(e, o[1], o[2], o[3]) /\ matches[e.ID] # NoRow =>
            matches'[e.ID].completed = matches[e.ID].completed]_vars

\* C10: a match with calculated = true keeps calculated = true and its
\* result in every step, and no calc request holds it as a candidate or
\* settles it.
C10_SettledTerminal ==
    /\ [][\A id \in Stored :
            matches[id].calculated =>
                /\ matches'[id] # NoRow
                /\ matches'[id].calculated
                /\ matches'[id].result = matches[id].result]_vars
    /\ [](\A id \in Stored :
            matches[id].calculated =>
                \A w \in Workers :
                    /\ id \notin {c.APIID : c \in calc[w].todo}
                    /\ calc[w].cur # id)

\* C10 witness: after a match was calculated a scores sync changed its
\* scores to another outcome, and a second calc request has read its
\* candidates.
C10_Witness ==
    /\ calcs = 2
    /\ calc[1].pc = "loop"
    /\ \E id \in Stored :
        /\ matches[id].calculated
        /\ matches[id].completed
        /\ matches[id].home_score \in Scores /\ matches[id].away_score \in Scores
        /\ matches[id].result # Outcome(matches[id].home_score, matches[id].away_score)

\* A stored score column that holds no score: SQL NULL or the -1 sentinel.
Unknown(score) == score = NULL \/ score = NoScore

\* The stored matches that are completed with a score still unknown.
Incomplete ==
    {id \in Stored :
        matches[id].completed
        /\ (Unknown(matches[id].home_score) \/ Unknown(matches[id].away_score))}

\* C11: a completed match with an unknown score is not returned by the
\* candidate query, is not held or settled by any calc request, is not
\* calculated, and every bet on it is pending.
C11_SkipIncomplete ==
    \A id \in Incomplete :
        /\ id \notin GetCompletedUncalculatedMatches(matches)
        /\ \A w \in Workers :
            /\ id \notin {c.APIID : c \in calc[w].todo}
            /\ calc[w].cur # id
        /\ ~matches[id].calculated
        /\ \A b \in DOMAIN bets : bets[b].match_id = id => bets[b].status = "pending"

\* C11 witness: a row created by the odds sync was completed by a scores
\* record that carried one score only; it has a bet, and a calc request has
\* run and returned without an error.
C11_Witness ==
    /\ lastOp = "none"
    /\ \E id \in Incomplete :
        /\ matches[id].home_odds # NULL
        /\ matches[id].home_score = NoScore
        /\ matches[id].away_score \in Scores
        /\ \E b \in DOMAIN bets : bets[b].match_id = id

\* C12: an odds sync over a body of n records, one of them malformed and the
\* others complete, with every store call succeeding, answers 200 with n-1
\* records created or updated and one skipped; and no malformed record is
\* ever stored (no row without an api_id, none with an unparsed time).
C12_BatchResilience ==
    /\ (resp.n >= 1 /\ resp.bad = 1 /\ resp.quoted = resp.n - 1 /\ resp.failures = 0) =>
            /\ resp.status = 200
            /\ resp.created + resp.updated = resp.n - 1
            /\ resp.skipped = 1
    /\ matches[EmptyID] = NoRow
    /\ \A id \in Stored : matches[id].commence_time # BadTime

\* The write of pipeline k for the row id takes effect in this step.
WriteStep(k, id) ==
    /\ sync[k].pc = "write" /\ sync'[k].pc = "idle"
    /\ sync[k].match.APIID = id
    /\ matches[id] # NoRow

\* C13: when an odds sync and a scores sync overlap on a stored match, the
\* write of the scores sync leaves the stored odds as they are (it never
\* writes back odds it read earlier), and the write of the odds sync leaves
\* the stored scores as they are.  (The completed flag under an odds write is
\* the case of C9.)
C13_SafelyMergeable ==
    [][\A id \in Stored :
        /\ WriteStep("scores", id) => Odds(matches'[id]) = Odds(matches[id])
        /\ WriteStep("odds", id) =>
                /\ matches'[id].home_score = matches[id].home_score
                /\ matches'[id].away_score = matches[id].away_score]_vars

\* The loop of calc request w over its candidates has ended.
LoopDone(w) == calc[w].pc = "respond" \/ (calc[w].pc = "loop" /\ calc[w].todo = {})

\* C14: when the loop of a calc request has ended, every candidate it read
\* none of whose own store calls failed is fully settled, whatever happened
\* to the other candidates and in whatever order they were taken: it is
\* calculated, no bet on it is pending, and its bets are won exactly when
\* their type is the stored result, each winner credited once.
C14_FailureIsolation ==
    \A w \in Workers :
        LoopDone(w) =>
            \A id \in calc[w].cands \ calc[w].failed :
                /\ matches[id].calculated
                /\ PendingOn(id) = {}
                /\ \A b \in DOMAIN bets :
                    bets[b].match_id = id =>
                        /\ bets[b].status = "won" <=> bets[b].bet_type = matches[id].result
                        /\ bets[b].status = "won" <=> credited[b] = 1

\* C14 witness: of two candidates one failed in its transaction and its bet
\* is pending, the other is settled with a bet that won.
C14_Witness ==
    /\ calc[1].pc = "respond"
    /\ \E id1 \in calc[1].failed, id2 \in calc[1].cands \ calc[1].failed :
        /\ ~matches[id1].calculated
        /\ PendingOn(id1) # {}
        /\ \E b \in DOMAIN bets : bets[b].match_id = id2 /\ bets[b].status = "won"

\* The step of calc request w past the notification.
NotifyStep(w) == calc[w].pc = "loop" /\ calc'[w].pc = "respond"

\* C15: the notification of a calc request is attempted only when the
\* settlement transaction of every candidate it read has committed or failed
\* and none is open; whatever the notification's outcome, the step changes no
\* bet, no balance, no match row and not the response the request returns.
C15_NotifyAfterSettlement ==
    [][\A w \in Workers : NotifyStep(w) =>
            /\ calc[w].cands \subseteq calc[w].settled \cup calc[w].failed
            /\ ~TxOpen(w)
            /\ LockedBets(w) = {}
            /\ bets' = bets /\ money' = money /\ matches' = matches
            /\ credited' = credited
            /\ CalcResponse(calc'[w]) = CalcResponse(calc[w])]_vars

\* C15 witness: the notification step was taken by a request that settled a
\* match with a winner and reports it.
C15_Witness ==
    /\ calc[1].pc = "respond"
    /\ calc[1].settled # {}
    /\ calc[1].updated # {}
    /\ \E b \in DOMAIN bets : bets[b].match_id \in calc[1].settled /\ bets[b].status = "won"

\* C16: the counters an odds sync returns account for every record it
\* fetched: created + updated + skipped is the number of records, a record
\* whose store update or insert failed being counted as skipped.
C16_CountersAccount ==
    resp.status = 200 =>
        /\ resp.created + resp.updated + resp.skipped = resp.n
        /\ resp.skipped >= resp.failures

\* The store calls of a calc request return: a request that is in its loop
\* reaches the notification or the response.
StoreWaitsBounded ==
    calc[1].pc \in {"loop", "credit", "commit", "mark"} ~> calc[1].pc \in {"notify", "respond", "idle"}

\* C17: every odds sync, scores sync and calc request that was started
\* eventually returns to its caller, also when the feed or Telegram never
\* answers.
C17_EventuallyReturns ==
    /\ \A k \in Pipelines : sync[k].pc = "fetch" ~> sync[k].pc = "idle"
    /\ calc[1].pc # "idle" ~> calc[1].pc = "idle"

\* The facts that can be upserted for the external id.
FactsFor(id) ==
    [APIID : {id}, CommenceTime : Times,
     HomeOdds : Prices \cup {NULL}, DrawOdds : Prices \cup {NULL}, AwayOdds : Prices \cup {NULL},
     Completed : BOOLEAN, HomeScore : Scores \cup {NULL}, AwayScore : Scores \cup {NULL},
     Calculated : {FALSE}, Result : {NoResult}]

\* The odds of a fact, by the column they are stored in.
FactOdds(fact) ==
    [home_odds |-> fact.HomeOdds, draw_odds |-> fact.DrawOdds, away_odds |-> fact.AwayOdds]

\* C18: for every stored match, whatever its stored odds, an upsert of a fact
\* for its external id sets each odds column for which the fact carries a
\* value to that value, each column by itself, through UpsertMatch and
\* through UpdateMatchByAPIID; and an odds sync whose store calls succeed
\* stores every price its record quotes.
C18_MergeOverwrite ==
    /\ [](\A id \in Stored : \A fact \in FactsFor(id) : \A c \in OddsColumns :
            FactOdds(fact)[c] # NULL =>
                /\ UpsertMatch(matches, fact, TRUE)[id][c] = FactOdds(fact)[c]
                /\ UpdateMatchByAPIID(matches, id, fact)[id][c] = FactOdds(fact)[c])
    /\ [][\A e \in OddsEvents :
            oddsSyncHandler(e, TRUE, TRUE, TRUE) /\ matches[e.ID] # NoRow =>
                \A c \in OddsColumns :
                    FactOdds(processOddsEvent(e))[c] # NULL =>
                        matches'[e.ID][c] = FactOdds(processOddsEvent(e))[c]]_vars

\* C18 witness: a row holds a home price and no draw or away price.  No
\* insert writes such a row (the odds sync creates rows with three prices,
\* the scores sync with none), so an upsert wrote the home price over a
\* stored NULL and left the other two columns alone.
C18_Witness ==
    \E id \in Stored :
        /\ matches[id].home_odds \in Prices
        /\ matches[id].draw_odds = NULL
        /\ matches[id].away_odds = NULL

\* The result that belongs to the scores of a row.
ResultOfScores(row, r) ==
    \/ row.home_score > row.away_score /\ r = "home"
    \/ row.home_score < row.away_score /\ r = "away"
    \/ row.home_score = row.away_score /\ r = "draw"

\* C19: a calc request writes to result, and settles bets by, home when the
\* home score is greater, away when it is smaller and draw when the scores
\* are equal; result never holds another value; and in the commit for a match
\* with equal scores exactly the pending draw bets become won.
C19_Outcome ==
    /\ [](\A id \in Stored : matches[id].result \in {NoResult, "home", "away", "draw"})
    /\ [][\A id \in Stored :
            matches'[id] # matches[id] =>
                /\ matches'[id].calculated
                /\ ResultOfScores(matches[id], matches'[id].result)]_vars
    /\ [][\A w \in Workers : CommitStep(w) =>
            /\ ResultOfScores(matches[calc[w].cur], calc[w].result)
            /\ matches[calc[w].cur].home_score = matches[calc[w].cur].away_score =>
                    \A b \in DOMAIN bets :
                        bets'[b].status = "won" /\ bets[b].status # "won" <=>
                            b \in PendingOn(calc[w].cur) /\ bets[b].bet_type = "draw"]_vars

\* C19 witness: a match with equal scores is calculated as a draw; of the two
\* bets on it the draw bet is won and the other is lost.
C19_Witness ==
    \E id \in Stored :
        /\ matches[id].calculated
        /\ matches[id].home_score = matches[id].away_score
        /\ matches[id].result = "draw"
        /\ \E b1, b2 \in DOMAIN bets :
            /\ bets[b1].match_id = id /\ bets[b1].bet_type = "draw" /\ bets[b1].status = "won"
            /\ bets[b2].match_id = id /\ bets[b2].bet_type # "draw" /\ bets[b2].status = "lost"

\* C20: the response of a calc request counts the matches whose settlement
\* transaction the request committed, and lists exactly one entry for each
\* of them, with the result computed for it.
C20_Report ==
    \A w \in Workers :
        calc[w].pc = "respond" =>
            LET r == CalcResponse(calc[w])
            IN /\ r.updated = Cardinality(calc[w].settled)
               /\ {u.APIID : u \in r.matches} = calc[w].settled
               /\ Cardinality(r.matches) = Cardinality(calc[w].settled)
               /\ \A u \in r.matches : ResultOfScores(matches[u.APIID], u.result)

\* The follow-up write of calc request w fails in this step.
MarkFailStep(w) ==
    calc[w].pc = "mark" /\ calc'[w].pc = "loop" /\ calc[w].cur \in calc'[w].failed

\* A match whose bets are settled and whose follow-up write is outstanding.
SettledUnmarked(id) ==
    /\ matches[id].completed /\ ~matches[id].calculated
    /\ PendingOn(id) = {}
    /\ \E b \in DOMAIN bets : bets[b].match_id = id /\ Terminal(b)

\* C21: calculated and result of a match are written only by the request that
\* has committed the match's settlement transaction, after the commit; when
\* the follow-up write fails the match stays completed, not calculated and a
\* candidate; the next calc request selects it again, its transaction changes
\* no bet and no balance, and the result it marks is the one the bets of the
\* match were settled against.
C21_FollowUpRetry ==
    /\ [][\A id \in Stored :
            (matches'[id].calculated # matches[id].calculated
                \/ matches'[id].result # matches[id].result) =>
                \E w \in Workers :
                    /\ calc[w].pc = "mark" /\ calc[w].cur = id /\ id \in calc[w].settled
                    /\ ~TxOpen(w)
                    /\ matches'[id].calculated /\ matches'[id].result = calc[w].result]_vars
    /\ [][\A w \in Workers : MarkFailStep(w) =>
            /\ matches'[calc[w].cur].completed /\ ~matches'[calc[w].cur].calculated
            /\ calc[w].cur \in GetCompletedUncalculatedMatches(matches')]_vars
    /\ [][\A w \in Workers : calc[w].pc = "idle" /\ calc'[w].pc = "loop" =>
            \A id \in Stored : SettledUnmarked(id) => id \in calc'[w].cands]_vars
    /\ [][\A w \in Workers : CommitStep(w) /\ SettledUnmarked(calc[w].cur) =>
            bets' = bets /\ money' = money /\ credited' = credited]_vars
    /\ [][\A id \in Stored : ~matches[id].calculated /\ matches'[id].calculated =>
            \A b \in DOMAIN bets :
                bets[b].match_id = id /\ Terminal(b) =>
                    (bets[b].status = "won" <=> bets[b].bet_type = matches'[id].result)]_vars

\* C21 witness: the previous calc request ended with a failed follow-up write
\* for the only stored match; the second request has marked it calculated,
\* and the winning bet on it is credited once.
C21_Witness ==
    /\ calcs = 2 /\ lastOp = "mark"
    /\ \E id \in Stored :
        /\ Stored = {id}
        /\ matches[id].calculated
        /\ \E b \in DOMAIN bets :
            bets[b].match_id = id /\ bets[b].status = "won" /\ credited[b] = 1

\* The record quotes all three prices.
AllQuoted(e) == e.home # NULL /\ e.draw # NULL /\ e.away # NULL

\* C22: an odds sync creates a row for an external id that is not stored only
\* from a record with all three prices, and the row holds them; a record
\* without all three is counted as skipped and nothing is stored.  A scores
\* sync creates a row for an id that is not stored with the three odds NULL.
\* No sync turns a stored price into NULL; so a row with an odds column NULL
\* was created by a scores sync.
C22_CreateRules ==
    /\ [][\A e \in OddsEvents, o \in StoreOutcomes :
            matches[e.ID] = NoRow /\ oddsSyncHandler(e, o[1], o[2], o[3]) =>
                /\ (matches'[e.ID] # NoRow =>
                        /\ AllQuoted(e)
                        /\ Odds(matches'[e.ID]) = <<e.home, e.draw, e.away>>)
                /\ (~AllQuoted(e) =>
                        /\ matches' = matches
                        /\ OddsSyncCount(matches, e, o[1], o[2], o[3]) = "skipped")]_vars
    /\ [][\A e \in ScoresEvents, o \in StoreOutcomes :
            matches[e.ID] = NoRow /\ scoresSyncHandler(e, o[1], o[2], o[3]) =>
                (matches'[e.ID] # NoRow => Odds(matches'[e.ID]) = <<NULL, NULL, NULL>>)]_vars
    /\ [][\A id \in ApiIds :
            matches[id] = NoRow /\ matches'[id] # NoRow =>
                \/ \A c \in OddsColumns : matches'[id][c] # NULL
                \/ \A c \in OddsColumns : matches'[id][c] = NULL]_vars
    /\ [][\A id \in Stored : \A c \in OddsColumns :
            matches[id][c] # NULL => matches'[id] # NoRow /\ matches'[id][c] # NULL]_vars

\* C22 witness: a row that a scores sync created (its scores are known, so a
\* scores record was stored) still has its three odds NULL.
C22_Witness ==
    \E id \in Stored :
        /\ Odds(matches[id]) = <<NULL, NULL, NULL>>
        /\ matches[id].home_score \in Scores
        /\ syncs >= 2

\* The two sides of a scores record, with the fact's field and the row's
\* column that belong to each.
Sides == {"home", "away"}
FactScore(fact, s) == IF s = "home" THEN fact.HomeScore ELSE fact.AwayScore
RowScore(row, s) == IF s = "home" THEN row.home_score ELSE row.away_score

\* What a scores sync does with side s of the decoded record r, given that
\* the side's string reads as the integer n exactly when Reads(r[s]) holds:
\* a string that reads yields the score n in the fact and, when the store
\* calls succeed, in the row; any other string yields no score in the fact,
\* keeps the score of a stored row and is stored as -1 (not 0) in a new row;
\* the fact carries the record's completed flag.
ScoreExtraction(Reads(_)) ==
    \A r \in RawScoresRecords :
        /\ processRawScoreEvent(r).Completed = r.Completed
        /\ \A s \in Sides :
            LET fact == processRawScoreEvent(r)
                after == ScoresSyncStore(matches, ParsedScores(r), TRUE, TRUE, TRUE)
            IN IF Reads(r[s])
               THEN /\ FactScore(fact, s) = r[s].n
                    /\ RowScore(after[r.ID], s) = r[s].n
               ELSE /\ FactScore(fact, s) = NULL
                    /\ IF matches[r.ID] # NoRow
                       THEN RowScore(after[r.ID], s) = RowScore(matches[r.ID], s)
                       ELSE RowScore(after[r.ID], s) = NoScore /\ NoScore # 0

\* The string is the text of an integer.
ReadsAsInteger(raw) == raw.kind = "int"

\* The string is the text of an integer other than -1.
ReadsAsScore(raw) == raw.kind = "int" /\ raw.n # NoScore

\* C23 as stated: every score string that parses as an integer n yields the
\* score n in the fact and in the stored match; a missing, empty or
\* unparseable string yields an absent score that is stored as unknown and
\* overwrites no known score; completed is carried into the fact.
C23_ScoreExtraction == ScoreExtraction(ReadsAsInteger)

\* C23, amended: the same for every score string that parses as an integer
\* other than -1; the string "-1" is read as an absent score.
C23_ScoreExtractionAmended ==
    /\ ScoreExtraction(ReadsAsScore)
    /\ \A raw \in RawScores : ~ReadsAsScore(raw) => ScoreOf(raw) = NULL

\* C23 witness: a stored match holds the score 0 for one side (a record with
\* the string "0" was stored) and has the other side unknown.
C23_Witness ==
    \E id \in Stored :
        /\ matches[id].home_score = 0
        /\ matches[id].away_score = NoScore

\* The price the record quotes under the name (NULL when it quotes none).
QuoteUnder(r, name) ==
    IF \E i \in DOMAIN r.outcomes : r.outcomes[i].Name = name
    THEN r.outcomes[CHOOSE i \in DOMAIN r.outcomes : r.outcomes[i].Name = name].Price
    ELSE NULL

\* The record quotes three pairwise different prices for home, draw, away.
ThreeDifferent(r) ==
    /\ r.market
    /\ QuoteUnder(r, "home") # NULL /\ QuoteUnder(r, "Draw") # NULL
    /\ QuoteUnder(r, "away") # NULL
    /\ QuoteUnder(r, "home") # QuoteUnder(r, "Draw")
    /\ QuoteUnder(r, "home") # QuoteUnder(r, "away")
    /\ QuoteUnder(r, "Draw") # QuoteUnder(r, "away")

FitsStep(id) ==
    {e \in ScoresEvents :
        /\ e.ID = id
        /\ matches'[id].completed = e.Completed
        /\ matches'[id].commence_time = e.CommenceTime
        /\ e.home # NULL => matches'[id].home_score = e.home
        /\ e.away # NULL => matches'[id].away_score = e.away}

\* C25: a scores sync that processes a record for a stored match, requests
\* being served one at a time, leaves the three odds, calculated and result
\* of the match as they are, changes no other row, no bet and no balance, and
\* leaves a score for which the record carries no value as it is.  (A sync
\* that leaves the row as it is keeps the frame by itself.)
C25_ScoresFrame ==
    [][syncs' # syncs =>
        /\ bets' = bets /\ money' = money /\ credited' = credited
        /\ \A id \in Stored :
            matches'[id] # matches[id] =>
                /\ matches'[id] # NoRow
                /\ \A e \in FitsStep(id), o \in StoreOutcomes :
                    scoresSyncHandler(e, o[1], o[2], o[3]) =>
                        /\ Odds(matches'[id]) = Odds(matches[id])
                        /\ matches'[id].calculated = matches[id].calculated
                        /\ matches'[id].result = matches[id].result
                        /\ (e.home = NULL => matches'[id].home_score = matches[id].home_score)
                        /\ (e.away = NULL => matches'[id].away_score = matches[id].away_score)
                        /\ \A other \in ApiIds \ {id} : matches'[other] = matches[other]]_vars

\* C25 witness: a match that is calculated holds scores that do not give its
\* result: a scores sync has written new scores to the settled match and has
\* left calculated and result alone.
C25_Witness ==
    \E id \in Stored :
        /\ matches[id].calculated
        /\ matches[id].home_score \in Scores /\ matches[id].away_score \in Scores
        /\ ~ResultOfScores(matches[id], matches[id].result)

\* The match is completed, not calculated and lacks a score.
Waiting(id) ==
    /\ matches[id] # NoRow
    /\ matches[id].completed /\ ~matches[id].calculated
    /\ (Unknown(matches[id].home_score) \/ Unknown(matches[id].away_score))

\* The match is completed, not calculated and has both scores.
Eligible(id) ==
    /\ matches[id] # NoRow
    /\ matches[id].completed /\ ~matches[id].calculated
    /\ matches[id].home_score \in Scores /\ matches[id].away_score \in Scores

\* The match is settled, or a later sync has taken its completed flag back.
SettledOrReopened(id) ==
    /\ matches[id] # NoRow
    /\ \/ matches[id].calculated /\ PendingOn(id) = {}
       \/ ~matches[id].completed

\* C26: no step of a calc request changes a match that is completed, not
\* calculated and lacks a score, nor a bet on it; a calc request selects
\* every match that is completed, not calculated and has both scores; and
\* once a scores sync has supplied both scores, the match is settled by the
\* next calc request whose store operations succeed (given that one more
\* calc request is made), unless a sync takes its completed flag back.
C26_WaitResolved ==
    /\ [][CalcStep =>
            \A id \in Stored : Waiting(id) =>
                /\ matches'[id] = matches[id]
                /\ \A b \in DOMAIN bets : bets[b].match_id = id =>
                        bets'[b] = bets[b] /\ credited'[b] = credited[b]]_vars
    /\ [][calc[1].pc = "idle" /\ calc'[1].pc = "loop" =>
            \A id \in Stored : Eligible(id) => id \in calc'[1].cands]_vars
    /\ \A id \in ApiIds :
            (Eligible(id) /\ calcs < MaxCalcs) ~> SettledOrReopened(id)

\* C26 witness: the stored match, which lacked a score at first, is settled:
\* a scores sync has supplied the scores, a calc request has marked it
\* calculated and a bet on it is won and credited.
C26_Witness ==
    /\ syncs >= 1
    /\ matches[1] # NoRow /\ matches[1].calculated /\ matches[1].completed
    /\ \E b \in DOMAIN bets : bets[b].match_id = 1 /\ bets[b].status = "won" /\ credited[b] = 1

\* C27: for a stored match, processing a scores record, or an odds record,
\* a second time right after it was processed leaves every row as the first
\* processing left it, whatever the store calls of the second processing do,
\* and the set of stored api_ids is the same.
C27_ReReportIdempotent ==
    /\ \A e \in ScoresEvents, o \in StoreOutcomes :
            matches[e.ID] # NoRow =>
                LET once == ScoresSyncStore(matches, e, TRUE, TRUE, TRUE)
                    twice == ScoresSyncStore(once, e, o[1], o[2], o[3])
                IN /\ twice = once
                   /\ {id \in ApiIds : twice[id] # NoRow} = Stored
    /\ \A e \in OddsEvents, o \in StoreOutcomes :
            matches[e.ID] # NoRow =>
                LET once == OddsSyncStore(matches, e, TRUE, TRUE, TRUE)
                    twice == OddsSyncStore(once, e, o[1], o[2], o[3])
                IN /\ twice = once
                   /\ {id \in ApiIds : twice[id] # NoRow} = Stored

\* C27 witness: a settled match with odds whose row is what a final scores
\* record leaves, and which an odds record and another scores record would
\* change.
C27_Witness ==
    \E id \in Stored :
        /\ matches[id].calculated /\ matches[id].home_odds # NULL
        /\ matches[id].home_odds # matches[id].away_odds
        /\ \E e \in FinalScores :
                e.ID = id /\ ScoresSyncStore(matches, e, TRUE, TRUE, TRUE) = matches
        /\ \E e \in ScoresEvents :
                e.ID = id /\ ScoresSyncStore(matches, e, TRUE, TRUE, TRUE) # matches
        /\ \E e \in OddsEvents :
                e.ID = id /\ OddsSyncStore(matches, e, TRUE, TRUE, TRUE) # matches

\* C28: a balance write of a bet placement changes the user's balance by the
\* stake, and one of a top-up by the top-up amount (or leaves it, when the
\* write fails), and changes no other balance: with the settlement's credits
\* being increments, this is what makes the final balance the initial one
\* plus the top-ups minus the stakes plus the payouts under every interleaving.
C28_CreditsKept ==
    [][/\ place.pc = "money" /\ place'.pc = "idle" =>
            /\ money'[place.user] \in
                    {money[place.user], money[place.user] - place.req.BetAmount}
            /\ \A u \in Users \ {place.user} : money'[u] = money[u]
       /\ place.pc = "topup" /\ place'.pc = "idle" =>
            /\ money'[place.user] \in
                    {money[place.user], money[place.user] + TopupAmount}
            /\ \A u \in Users \ {place.user} : money'[u] = money[u]]_vars

\* C29: in every state, a match that is calculated has both scores known and
\* its result is the outcome of the scores that are stored now.
C29_ResultAgrees ==
    \A id \in Stored :
        matches[id].calculated =>
            /\ matches[id].home_score \in Scores
            /\ matches[id].away_score \in Scores
            /\ ResultOfScores(matches[id], matches[id].result)

\* C30: a step of a calc request that is settling match m changes no bet but
\* bets on m that were pending, and of these the status only, which becomes
\* won or lost; it adds and removes no bet; it changes no balance but that of
\* a user who owns a bet on m that the step makes won; and it changes no
\* match row but that of m, and of it calculated and result only.
C30_SettleFrame ==
    [][\A w \in Workers :
        calc'[w] # calc[w] =>
            LET m == calc[w].cur
            IN /\ DOMAIN bets' = DOMAIN bets
               /\ \A b \in DOMAIN bets :
                    bets'[b] # bets[b] =>
                        /\ bets[b].match_id = m /\ bets[b].status = "pending"
                        /\ bets'[b].status \in {"won", "lost"}
                        /\ bets'[b] = [bets[b] EXCEPT !.status = bets'[b].status]
               /\ \A u \in Users :
                    money'[u] # money[u] =>
                        \E b \in DOMAIN bets :
                            /\ bets[b].user_id = u /\ bets[b].match_id = m
                            /\ bets[b].status = "pending" /\ bets'[b].status = "won"
               /\ \A id \in ApiIds :
                    matches'[id] # matches[id] =>
                        /\ id = m /\ matches[id] # NoRow
                        /\ matches'[id] =
                                [matches[id] EXCEPT !.calculated = matches'[id].calculated,
                                                    !.result = matches'[id].result]]_vars

\* C30 witness: one match is settled and a bet on it is won and credited,
\* while a bet on another stored match is pending and a user holds the
\* initial balance.
C30_Witness ==
    \E id \in Stored, other \in Stored :
        /\ id # other
        /\ matches[id].calculated /\ ~matches[other].calculated
        /\ \E b \in DOMAIN bets :
                bets[b].match_id = id /\ bets[b].status = "won" /\ credited[b] = 1
        /\ \E b \in DOMAIN bets : bets[b].match_id = other /\ bets[b].status = "pending"
        /\ \E u \in Users : money[u] = InitialMoney

====
